---- MODULE Spec2Model ----
(***************************************************************************)
(* A model of the convolution layer of weakai/neuralnet (ConvLayer, its    *)
(* result nodes convLayerResult / convLayerRResult and their backward      *)
(* passes).  Go slices and pointers are records with an explicit isnil     *)
(* flag, backing arrays live in `heap` under an address, and float64       *)
(* values are integers.  Go indices are 0-based; sequences here are        *)
(* 1-based, so Go's data[i] is Data[i + 1].                                *)
(***************************************************************************)
EXTENDS Integers, Sequences, FiniteSets, TLC

VARIABLES
    layer,      \* the ConvLayer object
    heap,       \* backing arrays: address -> sequence of values
    nalloc,     \* number of objects allocated so far (addresses, identities)
    input,      \* the input node, an *autofunc.Variable
    rv,         \* the autofunc.RVector the dual graph was built with
    res,        \* the result node of the last Apply / ApplyR
    grad,       \* the autofunc.Gradient mapping
    rgrad,      \* the autofunc.RGradient mapping
    lastOp,     \* name of the last operation called
    fault,      \* TRUE once an operation has panicked
    calls,      \* the backward calls made so far, with their arguments
    callLog,    \* events of the last backward call, in program order
    rng,        \* state of the math/rand generator
    origin,     \* how the layer object came to be: "literal" or "deserialized"
    ret         \* value returned by the last operation that returns one

vars == <<layer, heap, nalloc, input, rv, res, grad, rgrad, lastOp, fault,
          calls, callLog, rng, origin, ret>>

----------------------------------------------------------------------------
(* Go values *)

\* F(v) with v evaluated once, before F: a local variable assigned once
Bind(v, F(_)) == CHOOSE r \in {F(x) : x \in {v}} : TRUE

NilSlice == [isnil |-> TRUE, elems |-> <<>>]

MkSlice(s) == [isnil |-> FALSE, elems |-> s]

\* append(s, e): the result is never nil
GoAppend(s, e) == [isnil |-> FALSE, elems |-> Append(s.elems, e)]

\* make(linalg.Vector, n)
Zeros(n) == [i \in 1..n |-> 0]

\* Go's integer division truncates toward zero
GoDiv(a, b) == IF a >= 0 THEN a \div b ELSE -((-a) \div b)

\* a nil *autofunc.Variable and a nil *Tensor3
NilVar == [isnil |-> TRUE, id |-> 0, Vector |-> 0]

NilPtr == [isnil |-> TRUE, t |-> <<>>]

Ptr(t) == [isnil |-> FALSE, t |-> t]

\* the array a slice header points at; address 0 is the nil slice
Deref(h, a) == IF a = 0 THEN <<>> ELSE h[a]

VecAdd(a, b) == [i \in 1..Len(a) |-> a[i] + b[i]]

RECURSIVE Dot(_, _, _)
\* blas64.Dot(n, a, b)
Dot(n, a, b) == IF n = 0 THEN 0 ELSE Dot(n - 1, a, b) + a[n] * b[n]

\* blas64.Axpy(n, alpha, x, y): y += alpha * x
Axpy(alpha, x, y) == [i \in 1..Len(y) |-> y[i] + alpha * x[i]]

----------------------------------------------------------------------------
(* Tensor3 *)

Tensor(w, h, d, data) == [Width |-> w, Height |-> h, Depth |-> d, Data |-> data]

\* NewTensor3(w, h, d)
NewTensor3(w, h, d) == Tensor(w, h, d, Zeros(w * h * d))

\* position of (x, y, z) in the backing vector, 1-based
TIndex(t, x, y, z) == (y * t.Width + x) * t.Depth + z + 1

\* Get(x, y, z) succeeds
GetOK(t, x, y, z) ==
    /\ 0 <= x /\ x < t.Width
    /\ 0 <= y /\ y < t.Height
    /\ 0 <= z /\ z < t.Depth
    /\ TIndex(t, x, y, z) <= Len(t.Data)

Get(t, x, y, z) == t.Data[TIndex(t, x, y, z)]

\* coordinates of the 1-based position i of a tensor of width w and depth d
CoordZ(i, d) == (i - 1) % d

CoordX(i, w, d) == ((i - 1) \div d) % w

CoordY(i, w, d) == ((i - 1) \div d) \div w

\* Crop(x, y, dest) stays inside the receiver
CropOK(t, ox, oy, dest) ==
    /\ t.Depth = dest.Depth
    /\ Len(t.Data) = t.Width * t.Height * t.Depth
    /\ ox >= 0 /\ oy >= 0
    /\ ox + dest.Width <= t.Width
    /\ oy + dest.Height <= t.Height

\* Crop(x, y, dest): dest becomes the dest-sized window of t at (ox, oy)
Crop(t, ox, oy, dest) ==
    [dest EXCEPT !.Data =
        [i \in 1..(dest.Width * dest.Height * dest.Depth) |->
            Get(t, ox + CoordX(i, dest.Width, dest.Depth),
                   oy + CoordY(i, dest.Width, dest.Depth),
                   CoordZ(i, dest.Depth))]]

MulAddOK(t, t1) == t.Depth = t1.Depth

\* MulAdd(x, y, t1, s): t += s * t1 with t1 placed at offset (ox, oy) of t,
\* clipped to the part of t1 that falls inside t
MulAdd(t, ox, oy, t1, s) ==
    [t EXCEPT !.Data =
        [i \in 1..Len(t.Data) |->
            LET sx == CoordX(i, t.Width, t.Depth) - ox
                sy == CoordY(i, t.Width, t.Depth) - oy
                z  == CoordZ(i, t.Depth)
            IN  IF /\ 0 <= sx /\ sx < t1.Width
                   /\ 0 <= sy /\ sy < t1.Height
                THEN t.Data[i] + s * Get(t1, sx, sy, z)
                ELSE t.Data[i]]]

----------------------------------------------------------------------------
(* autofunc.Variable as a graph leaf, autofunc.Gradient / RGradient.  A      *)
(* mapping is a function from Variable identities to accumulator vectors;  *)
(* a nil map reads like the empty one.                                     *)

\* &autofunc.Variable{Vector: <slice at address a>} with identity id
MkVar(id, a) == [isnil |-> FALSE, id |-> id, Vector |-> a]

\* autofunc.NewGradient(vars) / NewRGradient(vars): one zero vector per variable
NewGradient(h, vs) ==
    [k \in {v.id : v \in vs} |->
        Zeros(Len(Deref(h, (CHOOSE v \in vs : v.id = k).Vector)))]

\* (*Variable).Constant(g)
VarConstant(v, g) == v.id \notin DOMAIN g

\* (*Variable).PropagateGradient(upstream, g)
VarPropagateGradient(v, up, g) ==
    IF v.id \in DOMAIN g THEN [g EXCEPT ![v.id] = VecAdd(@, up)] ELSE g

\* (*RVariable).Constant(rg, g)
RVarConstant(v, rg, g) == v.id \notin DOMAIN g /\ v.id \notin DOMAIN rg

\* (*RVariable).ROutput(): the direction of v in rv, zero when absent
RVarROutput(h, v, r) ==
    IF v.id \in DOMAIN r THEN r[v.id] ELSE Zeros(Len(Deref(h, v.Vector)))

----------------------------------------------------------------------------
(* ConvLayer *)

\* the Tensor3 value behind a *Tensor3 whose Data lives in the heap
Load(h, f) == Tensor(f.Width, f.Height, f.Depth, Deref(h, f.Data))

OutputWidth(c) ==
    LET w == 1 + GoDiv(c.InputWidth - c.FilterWidth, c.Stride)
    IN  IF w < 0 THEN 0 ELSE w

OutputHeight(c) ==
    LET hh == 1 + GoDiv(c.InputHeight - c.FilterHeight, c.Stride)
    IN  IF hh < 0 THEN 0 ELSE hh

OutputDepth(c) == c.FilterCount

inputToTensor(c, in) == Tensor(c.InputWidth, c.InputHeight, c.InputDepth, in)

outputToTensor(c, out) ==
    Tensor(OutputWidth(c), OutputHeight(c), OutputDepth(c), out)

filterToTensor(c, filter) ==
    Tensor(c.FilterWidth, c.FilterHeight, c.InputDepth, filter)

\* a guard that looks at Filters and Biases only
UninitializedNoVars(c) == c.Filters.isnil \/ c.Biases.isnil

\* the guard at the top of Parameters, Apply and ApplyR
Uninitialized(c) == c.Filters.isnil \/ c.Biases.isnil \/ c.FilterVars.isnil

\* a view that makes an (empty) accumulator for a variable m does not hold
gradViewAllocating(m, v) == Ptr(IF v.id \in DOMAIN m THEN m[v.id] ELSE <<>>)

\* m[v] read through a view that shares the accumulator's storage:
\* nil when v is no key of m
gradView(m, v) == IF v.id \in DOMAIN m THEN Ptr(m[v.id]) ELSE NilPtr

\* gradsFromMap(m): the bias accumulator and one accumulator tensor per
\* filter variable, nil for the variables m does not hold
gradsFromMap(c, m) ==
    [bias    |-> gradView(m, c.Biases),
     filters |-> [z \in 1..Len(c.FilterVars.elems) |->
                     LET gv == gradView(m, c.FilterVars.elems[z])
                     IN  IF gv.isnil THEN NilPtr
                         ELSE Ptr(filterToTensor(c, gv.t))]]

\* filtersR(v): the direction of every filter variable, nil when absent
filtersR(c, r) ==
    [z \in 1..Len(c.FilterVars.elems) |->
        LET fv == c.FilterVars.elems[z]
        IN  IF fv.id \in DOMAIN r THEN Ptr(filterToTensor(c, r[fv.id]))
            ELSE NilPtr]

\* output positions the convolution loops visit
OutXs(c) == 0..(OutputWidth(c) - 1)

OutYs(c) == 0..(OutputHeight(c) - 1)

\* convolve panics: a crop leaves the input, a dot product or the bias
\* vector or the output tensor is indexed out of range
convolvePanics(c, h, in) ==
    LET inT  == inputToTensor(c, in)
        crop == NewTensor3(c.FilterWidth, c.FilterHeight, c.InputDepth)
        n    == Len(c.Filters.elems)
    IN  \E y \in OutYs(c), x \in OutXs(c) :
            \/ ~CropOK(inT, x * c.Stride, y * c.Stride, crop)
            \/ \E z \in 1..n :
                  \/ Len(Deref(h, c.Filters.elems[z].Data)) > Len(crop.Data)
                  \/ z > Len(Deref(h, c.Biases.Vector))
                  \/ z > OutputDepth(c)

\* convolve(input): out[x, y, z] = dot(filter z, crop at (x*S, y*S)) + bias[z]
convolve(c, h, in) ==
    LET inT  == inputToTensor(c, in)
        crop == NewTensor3(c.FilterWidth, c.FilterHeight, c.InputDepth)
        out  == NewTensor3(OutputWidth(c), OutputHeight(c), OutputDepth(c))
    IN  [out EXCEPT !.Data =
            [i \in 1..Len(out.Data) |->
                LET x == CoordX(i, out.Width, out.Depth)
                    y == CoordY(i, out.Width, out.Depth)
                    z == CoordZ(i, out.Depth) + 1
                    cr == Crop(inT, x * c.Stride, y * c.Stride, crop)
                    fd == Deref(h, c.Filters.elems[z].Data)
                IN  IF z > Len(c.Filters.elems) THEN 0
                    ELSE Dot(Len(fd), fd, cr.Data) + Deref(h, c.Biases.Vector)[z]]]

\* convolveR(v, input, inputR): the product rule applied termwise
convolveR(c, h, r, in, inR) ==
    LET inT  == inputToTensor(c, in)
        inTR == inputToTensor(c, inR)
        crop == NewTensor3(c.FilterWidth, c.FilterHeight, c.InputDepth)
        out  == NewTensor3(OutputWidth(c), OutputHeight(c), OutputDepth(c))
        fR   == filtersR(c, r)
    IN  [out EXCEPT !.Data =
            [i \in 1..Len(out.Data) |->
                LET x == CoordX(i, out.Width, out.Depth)
                    y == CoordY(i, out.Width, out.Depth)
                    z == CoordZ(i, out.Depth) + 1
                    cr  == Crop(inT, x * c.Stride, y * c.Stride, crop)
                    crR == Crop(inTR, x * c.Stride, y * c.Stride, crop)
                    fd  == Deref(h, c.Filters.elems[z].Data)
                IN  IF z > Len(c.Filters.elems) THEN 0
                    ELSE Dot(Len(fd), fd, crR.Data)
                         + (IF fR[z].isnil THEN 0
                            ELSE Dot(Len(fR[z].t.Data), fR[z].t.Data, cr.Data))
                         + (IF c.Biases.id \in DOMAIN r
                            THEN r[c.Biases.id][z] ELSE 0)]]

----------------------------------------------------------------------------
(* convLayerResult: the plain backward pass.  The loop state carries the   *)
(* locals of PropagateGradient; `log` records the accumulations made.      *)

\* an upstream argument: a linalg.Vector, possibly nil
NilUp == NilSlice

\* blas64.Axpy(len(dest), ...) needs len(dest) elements of the source
AxpyOK(src, dest) == Len(dest) <= Len(src)

\* filterGrad += sumPartial * croppedInput
accumulateFilter(fg, cropped, sumPartial) ==
    [fg EXCEPT !.Data = Axpy(sumPartial, cropped.Data, @)]

\* biasGrad[z] = sumPartial: an assignment in the place of the accumulation
accumulateBiasAssign(bg, z, sumPartial) == [bg EXCEPT ![z] = sumPartial]

\* biasGrad[z] += sumPartial  (z is the 1-based filter number)
accumulateBias(bg, z, sumPartial) == [bg EXCEPT ![z] = @ + sumPartial]

\* tempInputGrad += sumPartial * filter
accumulateTemp(temp, filter, sumPartial) ==
    [temp EXCEPT !.Data = Axpy(sumPartial, filter.Data, @)]

Panic(st) == [st EXCEPT !.panic = TRUE]

\* if filterGrad := filterGrads[z]; filterGrad != nil { Axpy(...) }
pgFilterGrad(st, z, sumPartial) ==
    IF st.filters[z].isnil THEN st
    ELSE IF ~AxpyOK(st.cropped.Data, st.filters[z].t.Data) THEN Panic(st)
    ELSE [st EXCEPT !.filters[z].t = accumulateFilter(@, st.cropped, sumPartial),
                    !.log = Append(@, "filter")]

\* if biasGrad != nil { biasGrad[z] += sumPartial }
pgBiasGrad(st, z, sumPartial) ==
    IF st.panic \/ st.bias.isnil THEN st
    ELSE IF z > Len(st.bias.t) THEN Panic(st)
    ELSE [st EXCEPT !.bias.t = accumulateBias(@, z, sumPartial),
                    !.log = Append(@, "bias")]

\* if inputGrad != nil { Axpy(len(temp), sumPartial, filter, temp) }
pgTempGrad(st, filter, sumPartial) ==
    IF st.panic \/ st.inputGrad.isnil THEN st
    ELSE IF ~AxpyOK(filter.Data, st.temp.t.Data) THEN Panic(st)
    ELSE [st EXCEPT !.temp.t = accumulateTemp(@, filter, sumPartial)]

\* the body of the loop over the filters, for filter z at output (x, y)
pgFilter(st0, c, h, down, x, y, z) ==
    Bind(st0, LAMBDA st :
        IF st.panic THEN st
        ELSE IF ~GetOK(down, x, y, z - 1) \/ z > Len(st.filters) THEN Panic(st)
        ELSE Bind(Get(down, x, y, z - 1), LAMBDA sumPartial :
             Bind(pgFilterGrad(st, z, sumPartial), LAMBDA s1 :
             Bind(pgBiasGrad(s1, z, sumPartial), LAMBDA s2 :
                  pgTempGrad(s2, Load(h, c.Filters.elems[z]), sumPartial)))))

RECURSIVE pgFilters(_, _, _, _, _, _, _)
\* for z, filter := range c.Layer.Filters
pgFilters(st, c, h, down, x, y, z) ==
    IF z > Len(c.Filters.elems) THEN st
    ELSE pgFilters(pgFilter(st, c, h, down, x, y, z), c, h, down, x, y, z + 1)

\* for i := range tempInputGrad.Data { tempInputGrad.Data[i] = 0 }
pgClearTemp(st) ==
    IF st.temp.isnil THEN st ELSE [st EXCEPT !.temp.t.Data = Zeros(Len(@))]

\* if tempInputGrad != nil { inputGrad.MulAdd(inputX, inputY, tempInputGrad, 1) }
pgScatterTemp(st, inputX, inputY) ==
    IF st.panic \/ st.temp.isnil THEN st
    ELSE [st EXCEPT !.inputGrad.t = MulAdd(@, inputX, inputY, st.temp.t, 1)]

\* the body of the loop over the output positions
pgCell(st0, c, h, inT, down, x, y) ==
    Bind(st0, LAMBDA st :
        IF st.panic THEN st
        ELSE IF ~CropOK(inT, x * c.Stride, y * c.Stride, st.cropped)
        THEN Panic(st)
        ELSE Bind([pgClearTemp(st) EXCEPT
                      !.cropped = Crop(inT, x * c.Stride, y * c.Stride, @)],
                  LAMBDA s1 :
             Bind(pgFilters(s1, c, h, down, x, y, 1), LAMBDA s2 :
                  pgScatterTemp(s2, x * c.Stride, y * c.Stride))))

RECURSIVE pgCells(_, _, _, _, _, _, _)
\* for y := 0; y < Height; y++ { for x := 0; x < Width; x++ { ... } }
pgCells(st, c, h, out, inT, down, k) ==
    IF k >= out.Width * out.Height THEN st
    ELSE pgCells(pgCell(st, c, h, inT, down, k % out.Width, k \div out.Width),
                 c, h, out, inT, down, k + 1)

\* what the mapping m holds once the views bias / filters, which share
\* the accumulators' storage, have been written
writeThrough(m, c, bias, filters) ==
    LET fids == {c.FilterVars.elems[z].id :
                    z \in {i \in 1..Len(filters) : ~filters[i].isnil}}
        bids == IF bias.isnil THEN {} ELSE {c.Biases.id}
    IN  [k \in DOMAIN m \cup fids \cup bids |->
            IF k \in bids THEN bias.t
            ELSE IF k \in fids
            THEN filters[CHOOSE z \in 1..Len(filters) :
                            ~filters[z].isnil /\ c.FilterVars.elems[z].id = k].t.Data
            ELSE m[k]]

\* c.Input.Constant(grad) decides whether an input gradient is computed
wantInputGrad(in, g) == ~VarConstant(in, g)

\* the locals of PropagateGradient before its loops
pgStart(c, in, g) ==
    Bind(gradsFromMap(c, g), LAMBDA gm :
        [panic |-> FALSE, bias |-> gm.bias, filters |-> gm.filters,
         inputGrad |-> IF wantInputGrad(in, g)
                       THEN Ptr(NewTensor3(c.InputWidth, c.InputHeight,
                                           c.InputDepth))
                       ELSE NilPtr,
         temp |-> IF wantInputGrad(in, g)
                  THEN Ptr(NewTensor3(c.FilterWidth, c.FilterHeight,
                                      c.InputDepth))
                  ELSE NilPtr,
         cropped |-> NewTensor3(c.FilterWidth, c.FilterHeight, c.InputDepth),
         log |-> <<>>])

\* if inputGrad != nil { c.Input.PropagateGradient(inputGrad.Data, grad) }
pgFinish(st, in, g1) ==
    IF st.panic \/ st.inputGrad.isnil
    THEN [panic |-> st.panic, grad |-> g1, log |-> st.log, passed |-> NilPtr]
    ELSE [panic |-> FALSE,
          grad  |-> VarPropagateGradient(in, st.inputGrad.t.Data, g1),
          log   |-> Append(st.log, "input"),
          passed |-> Ptr(st.inputGrad.t.Data)]

\* convLayerResult.PropagateGradient(upstream, grad) on the node `out`
\* of layer c and input variable in: the mapping afterwards, whether the
\* call panicked, the events of the call, and the gradient passed to the
\* input node (nil when the input node is not called)
PropagateGradient(c, h, in, out, upstream, g) ==
    Bind(pgCells(pgStart(c, in, g), c, h, out,
                 inputToTensor(c, Deref(h, in.Vector)),
                 outputToTensor(c, upstream.elems), 0),
         LAMBDA st :
             Bind(writeThrough(g, c, st.bias, st.filters), LAMBDA g1 :
                  pgFinish(st, in, g1)))

\* a Constant that does not look at the filter variables
ConstantNoFilters(c, in, g) == VarConstant(c.Biases, g) /\ VarConstant(in, g)

\* convLayerResult.Constant(g)
Constant(c, in, g) ==
    /\ VarConstant(c.Biases, g)
    /\ VarConstant(in, g)
    /\ \A z \in 1..Len(c.FilterVars.elems) : VarConstant(c.FilterVars.elems[z], g)

----------------------------------------------------------------------------
(* convLayerRResult: the dual backward pass *)

\* the filter scatter with the offsets of the input scatter
scatterFilterForward(fg, inputX, inputY, inT, sumPartial) ==
    MulAdd(fg, inputX, inputY, inT, sumPartial)

\* filterGrad.MulAdd(-inputX, -inputY, inputTensor, sumPartial)
scatterFilter(fg, inputX, inputY, inT, sumPartial) ==
    MulAdd(fg, -inputX, -inputY, inT, sumPartial)

\* inputGrad.MulAdd(inputX, inputY, filter, sumPartial)
scatterInput(ig, inputX, inputY, filter, sumPartial) ==
    MulAdd(ig, inputX, inputY, filter, sumPartial)

\* (*RVariable).PropagateRGradient(upstream, upstreamR, rg, g)
RVarPropagateRGradient(v, up, upR, rg, g) ==
    [grad  |-> IF v.id \in DOMAIN g
               THEN [g EXCEPT ![v.id] = VecAdd(@, up)] ELSE g,
     rgrad |-> IF v.id \in DOMAIN rg
               THEN [rg EXCEPT ![v.id] = VecAdd(@, upR)] ELSE rg]

\* c.Input.Constant(rgrad, grad) decides whether input gradients are computed
wantInputGradR(in, rg, g) == ~RVarConstant(in, rg, g)

\* if filterGrad := filterGrads[z]; filterGrad != nil { filterGrad.MulAdd(...) }
prgFilterGrad(st, inputX, inputY, inT, z, sumPartial) ==
    IF st.filters[z].isnil THEN st
    ELSE [st EXCEPT
            !.filters[z].t = scatterFilter(@, inputX, inputY, inT, sumPartial),
            !.log = Append(@, "filter")]

\* if filterGradR := filterGradsR[z]; filterGradR != nil { two MulAdd }
prgFilterGradR(st, inputX, inputY, inT, inTR, z, sumPartial, sumPartialR) ==
    IF st.filtersR[z].isnil THEN st
    ELSE [st EXCEPT
            !.filtersR[z].t =
                scatterFilter(scatterFilter(@, inputX, inputY, inT, sumPartialR),
                              inputX, inputY, inTR, sumPartial),
            !.log = Append(@, "filterR")]

\* if biasGradR != nil { biasGradR[z] += sumPartialR }
prgBiasGradR(st, z, sumPartialR) ==
    IF st.panic \/ st.biasR.isnil THEN st
    ELSE IF z > Len(st.biasR.t) THEN Panic(st)
    ELSE [st EXCEPT !.biasR.t = accumulateBias(@, z, sumPartialR),
                    !.log = Append(@, "biasR")]

\* if inputGrad != nil { inputGrad.MulAdd(...); inputGradR.MulAdd(...) ... }
prgInputGrad(st, inputX, inputY, filter, rfilter, sumPartial, sumPartialR) ==
    IF st.panic \/ st.inputGrad.isnil THEN st
    ELSE IF ~MulAddOK(st.inputGrad.t, filter) THEN Panic(st)
    ELSE [st EXCEPT
            !.inputGrad.t = scatterInput(@, inputX, inputY, filter, sumPartial),
            !.inputGradR.t =
                IF rfilter.isnil
                THEN scatterInput(@, inputX, inputY, filter, sumPartialR)
                ELSE scatterInput(
                        scatterInput(@, inputX, inputY, filter, sumPartialR),
                        inputX, inputY, rfilter.t, sumPartial)]

\* the body of the loop over the filters, for filter z at output (x, y)
prgFilter(st0, c, h, inT, inTR, down, downR, fR, x, y, z) ==
    Bind(st0, LAMBDA st :
        IF st.panic THEN st
        ELSE IF \/ ~GetOK(down, x, y, z - 1)
                \/ ~GetOK(downR, x, y, z - 1)
                \/ z > Len(st.filters)
        THEN Panic(st)
        ELSE Bind(<<Get(down, x, y, z - 1), Get(downR, x, y, z - 1)>>,
                  LAMBDA sp :
             Bind(prgFilterGrad(st, x * c.Stride, y * c.Stride, inT, z, sp[1]),
                  LAMBDA s1 :
             Bind(prgFilterGradR(s1, x * c.Stride, y * c.Stride, inT, inTR, z,
                                 sp[1], sp[2]),
                  LAMBDA s2 :
             Bind(pgBiasGrad(s2, z, sp[1]), LAMBDA s3 :
             Bind(prgBiasGradR(s3, z, sp[2]), LAMBDA s4 :
                  prgInputGrad(s4, x * c.Stride, y * c.Stride,
                               Load(h, c.Filters.elems[z]), fR[z],
                               sp[1], sp[2])))))))

RECURSIVE prgFilters(_, _, _, _, _, _, _, _, _, _, _)
\* for z, filter := range c.Layer.Filters
prgFilters(st, c, h, inT, inTR, down, downR, fR, x, y, z) ==
    IF z > Len(c.Filters.elems) THEN st
    ELSE prgFilters(prgFilter(st, c, h, inT, inTR, down, downR, fR, x, y, z),
                    c, h, inT, inTR, down, downR, fR, x, y, z + 1)

RECURSIVE prgCells(_, _, _, _, _, _, _, _, _, _)
\* for y := 0; y < Height; y++ { for x := 0; x < Width; x++ { ... } }
prgCells(st, c, h, out, inT, inTR, down, downR, fR, k) ==
    IF k >= out.Width * out.Height THEN st
    ELSE prgCells(prgFilters(st, c, h, inT, inTR, down, downR, fR,
                             k % out.Width, k \div out.Width, 1),
                  c, h, out, inT, inTR, down, downR, fR, k + 1)

\* the locals of PropagateRGradient before its loops
prgStart(c, in, rg, g) ==
    Bind(<<gradsFromMap(c, g), gradsFromMap(c, rg)>>, LAMBDA gm :
        [panic |-> FALSE, bias |-> gm[1].bias, filters |-> gm[1].filters,
         biasR |-> gm[2].bias, filtersR |-> gm[2].filters,
         inputGrad  |-> IF wantInputGradR(in, rg, g)
                        THEN Ptr(NewTensor3(c.InputWidth, c.InputHeight,
                                            c.InputDepth))
                        ELSE NilPtr,
         inputGradR |-> IF wantInputGradR(in, rg, g)
                        THEN Ptr(NewTensor3(c.InputWidth, c.InputHeight,
                                            c.InputDepth))
                        ELSE NilPtr,
         log |-> <<>>])

\* if inputGrad != nil { c.Input.PropagateRGradient(...) }
prgFinish(st, in, rg1, g1) ==
    IF st.panic \/ st.inputGrad.isnil
    THEN [panic |-> st.panic, grad |-> g1, rgrad |-> rg1, log |-> st.log,
          passed |-> NilPtr]
    ELSE Bind(RVarPropagateRGradient(in, st.inputGrad.t.Data,
                                     st.inputGradR.t.Data, rg1, g1),
              LAMBDA p : [panic |-> FALSE, grad |-> p.grad, rgrad |-> p.rgrad,
                          log |-> Append(st.log, "input"),
                          passed |-> Ptr(st.inputGrad.t.Data)])

\* convLayerRResult.PropagateRGradient(upstream, upstreamR, rgrad, grad) on
\* the node `out` of layer c, input variable in and direction r
PropagateRGradient(c, h, in, r, out, upstream, upstreamR, rg, g) ==
    Bind(prgCells(prgStart(c, in, rg, g), c, h, out,
                  inputToTensor(c, Deref(h, in.Vector)),
                  inputToTensor(c, RVarROutput(h, in, r)),
                  outputToTensor(c, upstream.elems),
                  outputToTensor(c, upstreamR.elems),
                  filtersR(c, r), 0),
         LAMBDA st :
             Bind(<<writeThrough(g, c, st.bias, st.filters),
                    writeThrough(rg, c, st.biasR, st.filtersR)>>,
                  LAMBDA w : prgFinish(st, in, w[2], w[1])))

\* convLayerRResult.Constant(rg, g)
ConstantR(c, in, rg, g) ==
    /\ RVarConstant(in, rg, g)
    /\ VarConstant(c.Biases, g)
    /\ c.Biases.id \notin DOMAIN rg
    /\ \A z \in 1..Len(c.FilterVars.elems) :
          /\ VarConstant(c.FilterVars.elems[z], g)
          /\ c.FilterVars.elems[z].id \notin DOMAIN rg

----------------------------------------------------------------------------
(* Allocation and initialisation of a layer *)

\* math/rand as a generator with state: the next state and the value drawn
RngNext(s) == (5 * s + 3) % 8

RngDraw(s) == (s % 5) - 2

RECURSIVE RngSkip(_, _)
RngSkip(s, n) == IF n = 0 THEN s ELSE RngSkip(RngNext(s), n - 1)

\* a vector of n values drawn in order from state s
RngFill(s, n) == [i \in 1..n |-> RngDraw(RngSkip(s, i - 1))]

\* a freshly declared ConvLayer{...} with the given dimensions and no parameters
LiteralLayer(fc, fw, fh, st, iw, ih, id) ==
    [FilterCount |-> fc, FilterWidth |-> fw, FilterHeight |-> fh, Stride |-> st,
     InputWidth |-> iw, InputHeight |-> ih, InputDepth |-> id,
     Filters |-> NilSlice, FilterVars |-> NilSlice, Biases |-> NilVar]

\* the state an operation on the layer works on
Mem(c, h, n, r) == [layer |-> c, heap |-> h, nalloc |-> n, rng |-> r, panic |-> FALSE]

\* filter := NewTensor3(...); filterVar := &Variable{Vector: filter.Data};
\* both appended: the tensor and the variable get the same backing array
randomizeAllocOne(m) ==
    [m EXCEPT !.heap = ((m.nalloc + 1) :>
                           Zeros(m.layer.FilterWidth * m.layer.FilterHeight
                                 * m.layer.InputDepth)) @@ @,
              !.nalloc = @ + 2,
              !.layer.Filters =
                  GoAppend(@, Tensor(m.layer.FilterWidth, m.layer.FilterHeight,
                                     m.layer.InputDepth, m.nalloc + 1)),
              !.layer.FilterVars =
                  GoAppend(@, MkVar(m.nalloc + 2, m.nalloc + 1))]

RECURSIVE randomizeAlloc(_, _)
\* for i := 0; i < c.FilterCount; i++ { ... }
randomizeAlloc(m0, i) ==
    Bind(m0, LAMBDA m :
        IF i >= m.layer.FilterCount THEN m
        ELSE randomizeAlloc(randomizeAllocOne(m), i + 1))

\* if c.Biases == nil { allocate the bias variable }
randomizeBias(m0) ==
    Bind(m0, LAMBDA m :
        IF ~m.layer.Biases.isnil THEN m
        ELSE [m EXCEPT !.heap = ((m.nalloc + 1) :> Zeros(m.layer.FilterCount)) @@ @,
                       !.nalloc = @ + 2,
                       !.layer.Biases = MkVar(m.nalloc + 2, m.nalloc + 1)])

\* filter.Randomize(): overwrites the elements of Data in place
tensorRandomize(m, a) ==
    IF a = 0 THEN m
    ELSE [m EXCEPT !.heap[a] = RngFill(m.rng, Len(@)),
                   !.rng = RngSkip(@, Len(m.heap[a]))]

\* c.Biases.Vector[i] = (rand.Float64() * 2) - 1, for the 1-based i
randomizeBiasAt(m, i) ==
    IF i > Len(Deref(m.heap, m.layer.Biases.Vector)) THEN [m EXCEPT !.panic = TRUE]
    ELSE [m EXCEPT !.heap[m.layer.Biases.Vector][i] = RngDraw(m.rng),
                   !.rng = RngNext(@)]

RECURSIVE randomizeFill(_, _)
\* for i, filter := range c.Filters { filter.Randomize(); Biases.Vector[i] = ... }
randomizeFill(m0, i) ==
    Bind(m0, LAMBDA m :
        IF m.panic \/ i > Len(m.layer.Filters.elems) THEN m
        ELSE Bind(tensorRandomize(m, m.layer.Filters.elems[i].Data), LAMBDA m1 :
                  randomizeFill(randomizeBiasAt(m1, i), i + 1)))

\* ConvLayer.Randomize()
Randomize(m0) ==
    Bind(m0, LAMBDA m :
        randomizeFill(
            randomizeBias(IF m.layer.Filters.isnil THEN randomizeAlloc(m, 0)
                          ELSE m),
            1))

\* a persisted tensor as encoding/json rebuilds it, its array at address a
unmarshalTensor(p, a) ==
    IF p.isnil THEN NilPtr
    ELSE Ptr(Tensor(p.t.Width, p.t.Height, p.t.Depth, a))

\* one element of the persisted Filters list: a fresh array for its Data
unmarshalFilter(m, p) ==
    [m EXCEPT !.heap = IF p.isnil THEN @ ELSE ((m.nalloc + 1) :> p.t.Data) @@ @,
              !.nalloc = @ + 1,
              !.layer.Filters = GoAppend(@, unmarshalTensor(p, m.nalloc + 1))]

RECURSIVE unmarshalFilters(_, _, _)
\* json.Unmarshal of the Filters list, in the persisted order
unmarshalFilters(m0, ps, i) ==
    Bind(m0, LAMBDA m :
        IF i > Len(ps) THEN m
        ELSE unmarshalFilters(unmarshalFilter(m, ps[i]), ps, i + 1))

\* the persisted Biases variable, rebuilt with a fresh array
unmarshalBiases(m0, p) ==
    Bind(m0, LAMBDA m :
        IF p.Biases.isnil THEN m
        ELSE [m EXCEPT !.heap = ((m.nalloc + 1) :> p.Biases.t) @@ @,
                       !.nalloc = @ + 2,
                       !.layer.Biases = MkVar(m.nalloc + 2, m.nalloc + 1)])

\* json.Unmarshal(data, &c): FilterVars is not persisted and stays nil
unmarshal(p, h, n, r) ==
    Bind(Mem(LiteralLayer(p.FilterCount, p.FilterWidth, p.FilterHeight, p.Stride,
                          p.InputWidth, p.InputHeight, p.InputDepth), h, n, r),
         LAMBDA m :
            unmarshalBiases(
                IF p.Filters.isnil THEN m
                ELSE unmarshalFilters([m EXCEPT !.layer.Filters = MkSlice(<<>>)],
                                      p.Filters.elems, 1),
                p))

\* a wrap that gives the Variable a copy of the filter's array
wrapFilterCopy(m, x) ==
    IF x.isnil THEN [m EXCEPT !.panic = TRUE]
    ELSE [m EXCEPT !.heap = ((m.nalloc + 1) :> Deref(m.heap, x.t.Data)) @@ @,
                   !.nalloc = @ + 2,
                   !.layer.FilterVars = GoAppend(@, MkVar(m.nalloc + 2, m.nalloc + 1))]

\* v := &autofunc.Variable{Vector: x.Data}; the dereference of a nil x panics
wrapFilter(m, x) ==
    IF x.isnil THEN [m EXCEPT !.panic = TRUE]
    ELSE [m EXCEPT !.nalloc = @ + 1,
                   !.layer.FilterVars = GoAppend(@, MkVar(m.nalloc + 1, x.t.Data))]

RECURSIVE wrapFilters(_, _)
\* for _, x := range c.Filters { c.FilterVars = append(c.FilterVars, v) }
wrapFilters(m0, i) ==
    Bind(m0, LAMBDA m :
        IF m.panic \/ i > Len(m.layer.Filters.elems) THEN m
        ELSE wrapFilters(wrapFilter(m, m.layer.Filters.elems[i]), i + 1))

\* the filters held as the tensors their (non-nil) pointers point at
derefFilters(m0) ==
    Bind(m0, LAMBDA m :
        IF m.panic THEN m
        ELSE [m EXCEPT !.layer.Filters.elems = [i \in 1..Len(@) |-> @[i].t]])

\* DeserializeConvLayer(data) for well-formed data persisting p
DeserializeConvLayer(p, h, n, r) ==
    derefFilters(wrapFilters(unmarshal(p, h, n, r), 1))

----------------------------------------------------------------------------
(* Forward evaluation *)

NoReturn == [err |-> FALSE, val |-> <<>>]

NoResult == [kind |-> "none", OutputTensor |-> NewTensor3(0, 0, 0),
             ROutputTensor |-> NewTensor3(0, 0, 0)]

\* ConvLayer.Apply(in) panics
ApplyPanics(c, h, in) ==
    Uninitialized(c) \/ convolvePanics(c, h, Deref(h, in.Vector))

\* ConvLayer.Apply(in): the convLayerResult node
ApplyResult(c, h, in) ==
    [kind |-> "plain",
     OutputTensor  |-> convolve(c, h, Deref(h, in.Vector)),
     ROutputTensor |-> NewTensor3(0, 0, 0)]

\* ConvLayer.ApplyR(v, in): the convLayerRResult node
ApplyRResult(c, h, r, in) ==
    [kind |-> "dual",
     OutputTensor  |-> convolve(c, h, Deref(h, in.Vector)),
     ROutputTensor |-> convolveR(c, h, r, Deref(h, in.Vector),
                                 RVarROutput(h, in, r))]

\* ConvLayer.Parameters(): the bias variable, then the filter variables
ParametersResult(c) == <<c.Biases>> \o c.FilterVars.elems

----------------------------------------------------------------------------
(* Bounds and input sets *)

\* most backward calls made on one pair of mappings
MaxCalls == 2

\* largest FilterCount of a layer whose life cycle is explored
MaxFilters == 2

\* largest width / height / filter size and stride of the shape queries
MaxDim == 3

MaxStride == 3

\* layers of the backward-pass model:
\* <<FilterCount, FilterWidth, FilterHeight, Stride, InputWidth, InputHeight, InputDepth>>
LayerConfigs ==
    { <<1, 1, 1, 1, 2, 1, 1>>,
      <<1, 2, 1, 2, 4, 1, 1>>,
      <<1, 1, 1, 2, 4, 1, 1>>,
      <<2, 2, 2, 1, 3, 2, 1>>,
      <<1, 1, 1, 1, 2, 2, 2>>,
      <<1, 2, 1, 1, 1, 1, 1>>,
      <<1, 2, 1, 2, 1, 1, 1>> }

ConfigLayer(cfg) ==
    LiteralLayer(cfg[1], cfg[2], cfg[3], cfg[4], cfg[5], cfg[6], cfg[7])

Ramp(n) == [i \in 1..n |-> i]

Ones(n) == [i \in 1..n |-> 1]

\* upstream arguments of PropagateGradient for an output of length n
PlainUps(n) == {NilUp, MkSlice(Zeros(n)), MkSlice(Ramp(n)), MkSlice(Ones(n))}

\* (upstream, upstreamR) arguments of PropagateRGradient
DualUps(n) ==
    { <<NilUp, NilUp>>,
      <<MkSlice(Zeros(n)), MkSlice(Zeros(n))>>,
      <<MkSlice(Ramp(n)), MkSlice(Ones(n))>>,
      <<MkSlice(Zeros(n)), NilUp>> }

\* the variables of the graph: the layer's parameters and the input
GraphVars(c, in) ==
    {in, c.Biases} \cup {c.FilterVars.elems[z] : z \in 1..Len(c.FilterVars.elems)}

\* a direction for every variable in vs
Directions(h, vs) ==
    [k \in {v.id : v \in vs} |->
        LET n == Len(Deref(h, (CHOOSE v \in vs : v.id = k).Vector))
        IN  [i \in 1..n |-> 1 + (i % 2)]]

----------------------------------------------------------------------------
(* The backward-pass model: a randomized layer, an input variable, the     *)
(* tracked sets of the two mappings; then Apply / ApplyR and backward      *)
(* calls on the node.                                                      *)

Init ==
    \E cfg \in LayerConfigs, seed \in {1} :
        LET n  == cfg[5] * cfg[6] * cfg[7]
            in == MkVar(2, 1)
            m  == Randomize(Mem(ConfigLayer(cfg), (1 :> Ramp(n)), 2, seed))
            vs == GraphVars(m.layer, in)
        IN  /\ layer = m.layer
            /\ heap = m.heap
            /\ nalloc = m.nalloc
            /\ rng = m.rng
            /\ input = in
            /\ rv \in {<<>>, Directions(m.heap, vs)}
            /\ \E tracked \in SUBSET vs :
                  /\ grad = NewGradient(m.heap, tracked)
                  /\ \E rtracked \in {tracked, {}, {in}} :
                        rgrad = NewGradient(m.heap, rtracked)
            /\ res = NoResult
            /\ lastOp = "new"
            /\ fault = FALSE
            /\ calls = <<>>
            /\ callLog = <<>>
            /\ origin = "literal"
            /\ ret = NoReturn

\* out := layer.Apply(input)
Apply ==
    /\ ~fault
    /\ lastOp' = "Apply"
    /\ IF ApplyPanics(layer, heap, input)
       THEN fault' = TRUE /\ res' = res
       ELSE fault' = FALSE /\ res' = ApplyResult(layer, heap, input)
    /\ UNCHANGED <<layer, heap, nalloc, input, rv, grad, rgrad, calls, callLog,
                   rng, origin, ret>>

\* out := layer.ApplyR(rv, autofunc.NewRVariable(input, rv))
ApplyR ==
    /\ ~fault
    /\ lastOp' = "ApplyR"
    /\ IF ApplyPanics(layer, heap, input)
       THEN fault' = TRUE /\ res' = res
       ELSE fault' = FALSE /\ res' = ApplyRResult(layer, heap, rv, input)
    /\ UNCHANGED <<layer, heap, nalloc, input, rv, grad, rgrad, calls, callLog,
                   rng, origin, ret>>

\* out.PropagateGradient(upstream, grad) on a convLayerResult
CallPropagateGradient ==
    /\ ~fault
    /\ res.kind = "plain"
    /\ Len(calls) < MaxCalls
    /\ \E up \in PlainUps(Len(res.OutputTensor.Data)) :
          \E r \in {PropagateGradient(layer, heap, input, res.OutputTensor, up, grad)} :
              /\ grad' = r.grad
              /\ fault' = r.panic
              /\ callLog' = r.log
              /\ calls' = Append(calls, [op |-> "PropagateGradient", up |-> up,
                                         upR |-> NilUp, grad |-> grad,
                                         rgrad |-> rgrad, passed |-> r.passed])
    /\ lastOp' = "PropagateGradient"
    /\ UNCHANGED <<layer, heap, nalloc, input, rv, res, rgrad, rng, origin, ret>>

\* out.PropagateRGradient(upstream, upstreamR, rgrad, grad) on a convLayerRResult
CallPropagateRGradient ==
    /\ ~fault
    /\ res.kind = "dual"
    /\ Len(calls) < MaxCalls
    /\ \E ups \in DualUps(Len(res.OutputTensor.Data)) :
          \E r \in {PropagateRGradient(layer, heap, input, rv, res.OutputTensor,
                                      ups[1], ups[2], rgrad, grad)} :
              /\ grad' = r.grad
              /\ rgrad' = r.rgrad
              /\ fault' = r.panic
              /\ callLog' = r.log
              /\ calls' = Append(calls, [op |-> "PropagateRGradient", up |-> ups[1],
                                         upR |-> ups[2], grad |-> grad,
                                         rgrad |-> rgrad, passed |-> r.passed])
    /\ lastOp' = "PropagateRGradient"
    /\ UNCHANGED <<layer, heap, nalloc, input, rv, res, rng, origin, ret>>

Next ==
    \/ Apply
    \/ ApplyR
    \/ CallPropagateGradient
    \/ CallPropagateRGradient

Spec == Init /\ [][Next]_vars

----------------------------------------------------------------------------
(* The constancy model: the same graphs with every pair of tracked sets,   *)
(* and the Constant query on the node.                                     *)

InitConst ==
    \E cfg \in LayerConfigs :
        LET n  == cfg[5] * cfg[6] * cfg[7]
            in == MkVar(2, 1)
            m  == Randomize(Mem(ConfigLayer(cfg), (1 :> Ramp(n)), 2, 1))
            vs == GraphVars(m.layer, in)
        IN  /\ layer = m.layer
            /\ heap = m.heap
            /\ nalloc = m.nalloc
            /\ rng = m.rng
            /\ input = in
            /\ rv = <<>>
            /\ \E tracked \in SUBSET vs, rtracked \in SUBSET vs :
                  /\ grad = NewGradient(m.heap, tracked)
                  /\ rgrad = NewGradient(m.heap, rtracked)
            /\ res = NoResult
            /\ lastOp = "new"
            /\ fault = FALSE
            /\ calls = <<>>
            /\ callLog = <<>>
            /\ origin = "literal"
            /\ ret = NoReturn

\* out.Constant(grad) on a convLayerResult, out.Constant(rgrad, grad) on a
\* convLayerRResult
CallConstant ==
    /\ ~fault
    /\ res.kind # "none"
    /\ lastOp' = "Constant"
    /\ ret' = [err |-> FALSE,
               val |-> IF res.kind = "plain" THEN Constant(layer, input, grad)
                       ELSE ConstantR(layer, input, rgrad, grad)]
    /\ UNCHANGED <<layer, heap, nalloc, input, rv, res, grad, rgrad, fault,
                   calls, callLog, rng, origin>>

NextConst ==
    \/ Apply
    \/ ApplyR
    \/ CallConstant

SpecConst == InitConst /\ [][NextConst]_vars

----------------------------------------------------------------------------
(* The shape model: layers of every small geometry and the shape queries *)

InitShape ==
    /\ \E fw \in 0..MaxDim, fh \in 0..MaxDim, st \in 1..MaxStride,
          iw \in 0..MaxDim, ih \in 0..MaxDim :
          layer = LiteralLayer(1, fw, fh, st, iw, ih, 1)
    /\ heap = <<>>
    /\ nalloc = 0
    /\ rng = 0
    /\ input = NilVar
    /\ rv = <<>>
    /\ grad = <<>>
    /\ rgrad = <<>>
    /\ res = NoResult
    /\ lastOp = "new"
    /\ fault = FALSE
    /\ calls = <<>>
    /\ callLog = <<>>
    /\ origin = "literal"
    /\ ret = NoReturn

Query(op, val) ==
    /\ lastOp' = op
    /\ ret' = [err |-> FALSE, val |-> val]
    /\ UNCHANGED <<layer, heap, nalloc, input, rv, res, grad, rgrad, fault,
                   calls, callLog, rng, origin>>

CallOutputWidth == Query("OutputWidth", OutputWidth(layer))

CallOutputHeight == Query("OutputHeight", OutputHeight(layer))

CallOutputDepth == Query("OutputDepth", OutputDepth(layer))

NextShape ==
    \/ CallOutputWidth
    \/ CallOutputHeight
    \/ CallOutputDepth

SpecShape == InitShape /\ [][NextShape]_vars

----------------------------------------------------------------------------
(* The life-cycle model: a layer declared without parameters or rebuilt    *)
(* from persisted data, then Randomize, Parameters, Apply and ApplyR in    *)
(* any order.                                                              *)

\* filter widths of the life-cycle layers (input 2 x 1 x 1, stride 1)
LifeWidths == {1, 2}

\* a persisted filter tensor
PersistedTensor(fw, k) == Ptr(Tensor(fw, 1, 1, [i \in 1..fw |-> k + i]))

\* persisted Filters lists: null, [], [null] and lists of 1..MaxFilters tensors
PersistedFilters(fw) ==
    {NilSlice, MkSlice(<<>>), MkSlice(<<NilPtr>>)}
        \cup {MkSlice([i \in 1..k |-> PersistedTensor(fw, i)]) : k \in 1..MaxFilters}

\* persisted Biases: null or a vector of FilterCount values
PersistedBiases(fc) == {NilPtr, Ptr(Ones(fc))}

Persisted(fc, fw, fl, b) ==
    [FilterCount |-> fc, FilterWidth |-> fw, FilterHeight |-> 1, Stride |-> 1,
     InputWidth |-> 2, InputHeight |-> 1, InputDepth |-> 1,
     Filters |-> fl, Biases |-> b]

InitLayer ==
    /\ \E fc \in 0..MaxFilters, fw \in LifeWidths :
          layer = LiteralLayer(fc, fw, 1, 1, 2, 1, 1)
    /\ heap = (1 :> Ramp(2))
    /\ nalloc = 2
    /\ rng = 1
    /\ input = MkVar(2, 1)
    /\ rv = <<>>
    /\ grad = <<>>
    /\ rgrad = <<>>
    /\ res = NoResult
    /\ lastOp = "new"
    /\ fault = FALSE
    /\ calls = <<>>
    /\ callLog = <<>>
    /\ origin = "literal"
    /\ ret = NoReturn

\* c, err := DeserializeConvLayer(data) with data that does not parse
DeserializeMalformed ==
    /\ ~fault
    /\ lastOp' = "Deserialize"
    /\ ret' = [err |-> TRUE, val |-> <<>>]
    /\ UNCHANGED <<layer, heap, nalloc, input, rv, res, grad, rgrad, fault,
                   calls, callLog, rng, origin>>

\* c, err := DeserializeConvLayer(data); c replaces the layer.  The
\* objects of the replaced layer are unreachable, their addresses reused.
Deserialize ==
    /\ ~fault
    /\ lastOp' = "Deserialize"
    /\ \E fc \in 0..MaxFilters, fw \in LifeWidths :
       \E fl \in PersistedFilters(fw), b \in PersistedBiases(fc) :
       \E m \in {DeserializeConvLayer(Persisted(fc, fw, fl, b),
                                      (input.Vector :> heap[input.Vector]),
                                      2, rng)} :
          IF m.panic
          THEN /\ fault' = TRUE
               /\ UNCHANGED <<layer, heap, nalloc, origin, ret, res>>
          ELSE /\ fault' = FALSE
               /\ layer' = m.layer
               /\ heap' = m.heap
               /\ nalloc' = m.nalloc
               /\ origin' = "deserialized"
               /\ ret' = NoReturn
               /\ res' = NoResult
    /\ UNCHANGED <<input, rv, grad, rgrad, calls, callLog, rng>>

\* c.Randomize()
CallRandomize ==
    /\ ~fault
    /\ lastOp' = "Randomize"
    /\ \E m \in {Randomize(Mem(layer, heap, nalloc, rng))} :
          /\ layer' = m.layer
          /\ heap' = m.heap
          /\ nalloc' = m.nalloc
          /\ rng' = m.rng
          /\ fault' = m.panic
    /\ UNCHANGED <<input, rv, res, grad, rgrad, calls, callLog, origin, ret>>

\* c.Parameters()
CallParameters ==
    /\ ~fault
    /\ lastOp' = "Parameters"
    /\ IF Uninitialized(layer)
       THEN fault' = TRUE /\ ret' = ret
       ELSE fault' = FALSE /\ ret' = [err |-> FALSE, val |-> ParametersResult(layer)]
    /\ UNCHANGED <<layer, heap, nalloc, input, rv, res, grad, rgrad, calls,
                   callLog, rng, origin>>

NextLayer ==
    \/ DeserializeMalformed
    \/ Deserialize
    \/ CallRandomize
    \/ CallParameters
    \/ Apply
    \/ ApplyR

SpecLayer == InitLayer /\ [][NextLayer]_vars

----------------------------------------------------------------------------
(* Properties *)

BackwardOps == {"PropagateGradient", "PropagateRGradient"}

\* the last backward call made
LastCall == calls[Len(calls)]

\* the state is the one a backward call has just left
AfterBackward == lastOp \in BackwardOps /\ calls # <<>>

\* an explicit all-zero upstream in the place of a nil one
ZeroIfNil(up) ==
    IF up.isnil THEN MkSlice(Zeros(Len(res.OutputTensor.Data))) ELSE up

\* the result of the call c made with explicit zero vectors for nil upstreams
WithZeros(c) ==
    IF c.op = "PropagateGradient"
    THEN [PropagateGradient(layer, heap, input, res.OutputTensor,
                            ZeroIfNil(c.up), c.grad)
            EXCEPT !.log = <<>>] @@ [rgrad |-> c.rgrad]
    ELSE [PropagateRGradient(layer, heap, input, rv, res.OutputTensor,
                             ZeroIfNil(c.up), ZeroIfNil(c.upR), c.rgrad, c.grad)
            EXCEPT !.log = <<>>]

\* C1: a backward call with a nil upstream (PropagateGradient(nil, g),
\* PropagateRGradient with a nil upstream or upstreamR) completes without a
\* fault and leaves both mappings with the key set and the accumulator
\* values that the same call with explicit all-zero vectors leaves.
C1_NilUpstreamIsZeroUpstream ==
    (AfterBackward /\ (LastCall.up.isnil
                       \/ (LastCall.op = "PropagateRGradient" /\ LastCall.upR.isnil)))
    => /\ ~fault
       /\ grad = WithZeros(LastCall).grad
       /\ rgrad = WithZeros(LastCall).rgrad

Max(a, b) == IF a >= b THEN a ELSE b

\* max(0, 1 + floor((w - fw) / s)); \div rounds toward minus infinity
ShapeLaw(w, fw, s) == Max(0, 1 + ((w - fw) \div s))

\* C2: OutputWidth returns max(0, 1 + floor((W - Fw) / S)) and OutputHeight
\* the same for heights, for every W, Fw and S >= 1; so the result is 0
\* whenever the filter is larger than the input.
C2_ShapeLaw ==
    /\ lastOp = "OutputWidth"
       => /\ ret.val = ShapeLaw(layer.InputWidth, layer.FilterWidth, layer.Stride)
          /\ (layer.FilterWidth > layer.InputWidth => ret.val = 0)
    /\ lastOp = "OutputHeight"
       => /\ ret.val = ShapeLaw(layer.InputHeight, layer.FilterHeight, layer.Stride)
          /\ (layer.FilterHeight > layer.InputHeight => ret.val = 0)

\* C3: every step leaves the key sets of the Gradient and the RGradient
\* mapping as they were: a variable absent from a mapping gets no entry, and
\* the entries present keep their length (they are only accumulated into).
C3_KeySetFixed ==
    [][/\ DOMAIN grad' = DOMAIN grad
       /\ DOMAIN rgrad' = DOMAIN rgrad
       /\ \A k \in DOMAIN grad : Len(grad'[k]) = Len(grad[k])
       /\ \A k \in DOMAIN rgrad : Len(rgrad'[k]) = Len(rgrad[k])]_vars

\* a backward call has accumulated into a tracked filter while the bias,
\* untracked, got no entry
C3_Witness ==
    /\ AfterBackward /\ ~fault
    /\ layer.Biases.id \notin DOMAIN grad
    /\ layer.FilterVars.elems[1].id \in DOMAIN grad
    /\ grad # LastCall.grad
    /\ LastCall.op = "PropagateRGradient" => rgrad # LastCall.rgrad

\* identities of the variables reachable backward from the node
Reachable ==
    {input.id, layer.Biases.id}
        \cup {layer.FilterVars.elems[z].id : z \in 1..Len(layer.FilterVars.elems)}

\* C4: Constant() of a node is true iff no tracked variable is reachable
\* backward from it: for a convLayerResult none of bias, filters and input
\* is a key of the Gradient; for a convLayerRResult none of them is a key of
\* the Gradient or of the RGradient.
C4_ConstantIffNoneTracked ==
    lastOp = "Constant"
    => ret.val = IF res.kind = "plain"
                 THEN Reachable \cap DOMAIN grad = {}
                 ELSE Reachable \cap (DOMAIN grad \cup DOMAIN rgrad) = {}

\* both answers are given: a dual node whose only tracked variable is a
\* filter held by the RGradient alone reports non-constant
C4_Witness ==
    /\ lastOp = "Constant" /\ res.kind = "dual" /\ ret.val = FALSE
    /\ DOMAIN grad = {}
    /\ DOMAIN rgrad = {layer.FilterVars.elems[1].id}

\* a node built only from untracked parameters and input reports constant
C4_WitnessConstant ==
    /\ lastOp = "Constant" /\ ret.val = TRUE
    /\ DOMAIN grad = {} /\ DOMAIN rgrad = {}

\* C5: Apply, ApplyR and Parameters called while any of Filters, Biases and
\* FilterVars is nil panic, and produce no result node, no returned value
\* and no change of the layer.
C5_UninitializedUsePanics ==
    [][((Apply \/ ApplyR \/ CallParameters)
        /\ (layer.Filters.isnil \/ layer.Biases.isnil \/ layer.FilterVars.isnil))
       => (fault' /\ res' = res /\ ret' = ret /\ layer' = layer /\ heap' = heap)]_vars

\* a layer with filters and biases but nil FilterVars was used and panicked
C5_Witness ==
    /\ lastOp \in {"Apply", "ApplyR", "Parameters"} /\ fault
    /\ layer.FilterVars.isnil /\ ~layer.Filters.isnil /\ ~layer.Biases.isnil

\* C6: once DeserializeConvLayer has succeeded, and after any Randomize
\* calls that follow, FilterVars is as long as Filters and FilterVars[i]
\* has the backing array of Filters[i].Data, in the same order.
C6_FilterVarsShareStorage ==
    origin = "deserialized"
    => /\ Len(layer.FilterVars.elems) = Len(layer.Filters.elems)
       /\ \A i \in 1..Len(layer.Filters.elems) :
             /\ layer.FilterVars.elems[i].Vector = layer.Filters.elems[i].Data
             /\ layer.FilterVars.elems[i].Vector \in DOMAIN heap

\* a deserialized layer with two filters has been randomized
C6_Witness ==
    /\ origin = "deserialized" /\ lastOp = "Randomize" /\ ~fault
    /\ Len(layer.Filters.elems) >= 2
    /\ \E i \in 1..2 : Deref(heap, layer.Filters.elems[i].Data) # <<i + 1>>

\* C7: after Randomize returns, Filters, Biases and FilterVars are all
\* allocated, whatever the layer was before.
C7_RandomizeAllocatesAll ==
    (lastOp = "Randomize" /\ ~fault)
    => (~layer.Filters.isnil /\ ~layer.Biases.isnil /\ ~layer.FilterVars.isnil)

\* elementwise sum of two mappings with the same keys
MapAdd(a, b) == [k \in DOMAIN a |-> VecAdd(a[k], b[k])]

ZeroLike(m) == [k \in DOMAIN m |-> Zeros(Len(m[k]))]

\* what PropagateGradient(up, .) accumulates alone into a fresh zero mapping
Alone(up, m) ==
    PropagateGradient(layer, heap, input, res.OutputTensor, up, ZeroLike(m)).grad

\* the last two backward calls were plain ones with upstream vectors
TwoPlainCalls ==
    /\ AfterBackward /\ ~fault /\ Len(calls) >= 2
    /\ \A i \in {Len(calls) - 1, Len(calls)} :
          calls[i].op = "PropagateGradient" /\ ~calls[i].up.isnil

CountInput(log) == Cardinality({i \in 1..Len(log) : log[i] = "input"})

\* the input node was constant for the mappings of the call c
InputConstantAt(c) ==
    IF c.op = "PropagateGradient" THEN input.id \notin DOMAIN c.grad
    ELSE input.id \notin DOMAIN c.grad /\ input.id \notin DOMAIN c.rgrad

\* C9: a backward call invokes the input node's backward operation exactly
\* once, after all its bias and filter accumulation, when the input node
\* is not constant, and never when it is constant.
C9_InputBackwardOnceIffTracked ==
    AfterBackward
    => IF InputConstantAt(LastCall)
       THEN CountInput(callLog) = 0 /\ LastCall.passed.isnil
       ELSE /\ CountInput(callLog) = 1
            /\ callLog[Len(callLog)] = "input"
            /\ ~LastCall.passed.isnil

\* the last call was a PropagateRGradient
DualCall == AfterBackward /\ LastCall.op = "PropagateRGradient"

\* the call was given two upstream vectors
DualCallWithVectors == DualCall /\ ~LastCall.up.isnil /\ ~LastCall.upR.isnil

\* C10: a PropagateRGradient call given upstream vectors completes, and a
\* call that completes leaves in the Gradient mapping what the crop-based
\* PropagateGradient leaves for the same layer, input, upstream and
\* mapping, and passes the same gradient to the input node.
C10_DualMatchesPlain ==
    (DualCallWithVectors \/ (DualCall /\ ~fault))
    => LET p == PropagateGradient(layer, heap, input, res.OutputTensor,
                                  LastCall.up, LastCall.grad)
       IN  /\ ~fault /\ ~p.panic
           /\ grad = p.grad
           /\ (~p.passed.isnil => LastCall.passed = p.passed)

\* a dual call with stride 2 and a 2-wide filter accumulated into filter,
\* bias and input
C10_Witness ==
    /\ DualCallWithVectors /\ ~fault
    /\ layer.Stride = 2 /\ layer.FilterWidth = 2
    /\ Reachable \subseteq DOMAIN grad
    /\ \A k \in DOMAIN grad : grad[k] # LastCall.grad[k]

====
